---- MODULE Spec2Model ----
(***************************************************************************)
(* gisspy: middleware chains for API routes (src/src/api.ts) and for       *)
(* getServerSideProps / getStaticProps (pages.ts, kept in                  *)
(* src/tests/pages.test.ts from line 677 on).                              *)
(*                                                                         *)
(* A builder (ApiMiddlewareFactory / PageMiddlewareFactory) holds an array *)
(* of layers.  use(layer) makes a new builder, handler(fn) compiles an     *)
(* async function.  One invocation of that function is an execution; it    *)
(* suspends at every await, which is where executions interleave.          *)
(***************************************************************************)
EXTENDS Integers, Sequences, FiniteSets, TLC

\* ---------------------------------------------------------------- bounds
MaxLayers == 3      \* longest chain drawn for the single-run specification
MaxBuilders == 3    \* builder objects, the root included
MaxHandlers == 2    \* compiled handlers
MaxExecs == 2       \* invocations of compiled handlers that may interleave
MaxRuns == 1        \* invocations in the single-run specification
MaxPairLayers == 2  \* longest chain drawn for the two-handler specification

VARIABLES
    flavor,     \* "api" (ApiMiddlewareFactory) or "page" (PageMiddlewareFactory)
    arrays,     \* heap of layer arrays: arrays[r] is a sequence of layer names
    builders,   \* builder objects: their `layers` field is a reference into arrays
    handlers,   \* compiled handlers: the closures (this, fn) made by handler(fn)
    objects,    \* heap of accumulator objects ({} created by an invocation)
    execs       \* invocations of compiled handlers

vars == <<flavor, arrays, builders, handlers, objects, execs>>

\* ------------------------------------------------------------ JS values
Str(s) == [t |-> "string", v |-> s]
Num(s) == [t |-> "number", v |-> s]
Bool(s) == [t |-> "boolean", v |-> s]
Undef == [t |-> "undefined", v |-> ""]
Redirect(dest) == [t |-> "Redirect", v |-> dest]
Obj(o) == [t |-> "object", v |-> o]

\* JS truthiness of a scalar value.
Truthy(x) ==
    CASE x.t = "undefined" -> FALSE
      [] x.t = "boolean" -> x.v = "true"
      [] x.t = "number" -> x.v # "0"
      [] x.t = "string" -> x.v # ""
      [] OTHER -> TRUE

\* The object literal {}.
EmptyObj == [k \in {} |-> Undef]

\* o with key k set to x.
With(o, k, x) == [j \in DOMAIN o \cup {k} |-> IF j = k THEN x ELSE o[j]]

\* Mutation: the keys target already has keep their values.
AssignLeft(target, source) ==
    [k \in DOMAIN target \cup DOMAIN source |->
        IF k \in DOMAIN target THEN target[k] ELSE source[k]]

\* Mutation: the accumulator is replaced by the contribution.
ObjectReplace(target, source) == source

\* Mutation: a deep merge, nested objects merged key by key.
DeepAssign(target, source) ==
    [k \in DOMAIN target \cup DOMAIN source |->
        IF k \notin DOMAIN source THEN target[k]
        ELSE IF k \in DOMAIN target /\ target[k].t = "object" /\ source[k].t = "object"
        THEN Obj([j \in DOMAIN target[k].v \cup DOMAIN source[k].v |->
                    IF j \in DOMAIN source[k].v THEN source[k].v[j] ELSE target[k].v[j]])
        ELSE source[k]]

\* Mutation: the source is not copied.
AssignNothing(target, source) == target

\* Object.assign(target, source): every own key of source overwrites target's.
ObjectAssign(target, source) ==
    [k \in DOMAIN target \cup DOMAIN source |->
        IF k \in DOMAIN source THEN source[k] ELSE target[k]]

\* ------------------------------------------- what a layer or fn returns
\* What a call comes to: undefined, or null or a primitive (nonObject), or
\* an object whose own keys are `has`, or a promise that stays pending
\* (never),
\* or no value at all because the function threw (or its promise rejected
\* with) the error `throws`.
RetUndefined ==
    [isUndef |-> TRUE, has |-> {}, data |-> EmptyObj, props |-> EmptyObj,
     notFound |-> Undef, redirect |-> Undef, stop |-> Undef, throws |-> "",
     nonObject |-> FALSE, never |-> FALSE]

RetObj == [RetUndefined EXCEPT !.isUndef = FALSE]

RetData(d) == [RetObj EXCEPT !.has = {"data"}, !.data = d]
RetProps(p) == [RetObj EXCEPT !.has = {"props"}, !.props = p]
RetNotFound == [RetObj EXCEPT !.has = {"notFound"}, !.notFound = Bool("true")]
RetRedirect(dest) == [RetObj EXCEPT !.has = {"redirect"}, !.redirect = Redirect(dest)]
RetStop == [RetObj EXCEPT !.has = {"stop"}, !.stop = Bool("true")]
RetThrow(err) == [RetUndefined EXCEPT !.throws = err]
RetNull == [RetObj EXCEPT !.nonObject = TRUE]
RetNever == [RetUndefined EXCEPT !.never = TRUE]

\* The user a request carries (req.cookies["USER"]); every invocation gets
\* its own request, numbered in invocation order.
UserOf(req) == Str(<<"u1", "u2", "u3", "u4">>[req])

\* The page layers of the tests and the documentation, by name.
PageLayerRet(layer, req, data, props) ==
    CASE layer = "empty" -> RetObj
      [] layer = "throws" -> RetThrow("LayerError")
      [] layer = "void" -> RetUndefined
      [] layer = "notFound" -> RetNotFound
      [] layer = "redirect" -> RetRedirect("/")
      [] layer = "dataA" -> RetData(With(EmptyObj, "a", Str("a")))
      [] layer = "dataA2B" ->
            RetData(With(With(EmptyObj, "a", Num("0")), "b", Str("b")))
      [] layer = "propsA" -> RetProps(With(EmptyObj, "a", Str("a1")))
      [] layer = "propsA2B" ->
            RetProps(With(With(EmptyObj, "a", Num("0")), "b", Str("b")))
      [] layer = "user" ->
            [RetObj EXCEPT !.has = {"data", "props"},
                           !.data = With(EmptyObj, "user", UserOf(req)),
                           !.props = With(EmptyObj, "client", UserOf(req))]
      [] layer = "nestXY" ->
            [RetObj EXCEPT !.has = {"data", "props"},
                           !.data = With(EmptyObj, "n", Obj(With(With(EmptyObj, "x", Num("1")), "y", Num("2")))),
                           !.props = With(EmptyObj, "n", Obj(With(With(EmptyObj, "x", Num("1")), "y", Num("2"))))]
      [] layer = "nestX" ->
            [RetObj EXCEPT !.has = {"data", "props"},
                           !.data = With(EmptyObj, "n", Obj(With(EmptyObj, "x", Num("3")))),
                           !.props = With(EmptyObj, "n", Obj(With(EmptyObj, "x", Num("3"))))]
      [] layer = "unknown" -> [RetObj EXCEPT !.has = {"other"}]
      [] layer = "null" -> RetNull
      [] layer = "hangs" -> IF req = 1 THEN RetNever ELSE RetObj
      [] layer = "dataProps" ->
            [RetObj EXCEPT !.has = {"data", "props"},
                           !.data = With(EmptyObj, "d", Str("d1")),
                           !.props = With(EmptyObj, "p", Str("p"))]
      [] layer = "dataProps2" ->
            [RetObj EXCEPT !.has = {"data", "props"},
                           !.data = With(With(EmptyObj, "d", Str("d2")), "e", Str("e")),
                           !.props = With(EmptyObj, "p", Str("p"))]
      [] layer = "notFoundFalse" ->
            [RetObj EXCEPT !.has = {"notFound", "props"},
                           !.notFound = Bool("false"),
                           !.props = With(EmptyObj, "a", Str("a1"))]
      [] layer = "redirectUndef" -> [RetObj EXCEPT !.has = {"redirect"}]

PageLayers ==
    {"empty", "void", "notFound", "redirect", "dataA", "dataA2B", "propsA",
     "propsA2B", "user", "throws"}

\* Layers outside the declared result types: nested values, unknown keys,
\* null, terminal keys with falsy values.
PageEdgeLayers ==
    {"dataA", "propsA", "nestXY", "nestX", "unknown", "null", "notFoundFalse",
     "redirectUndef"}

\* The api layers of the tests and the documentation, by name.
ApiLayerRet(layer, req, data) ==
    CASE layer = "void" -> RetUndefined
      [] layer = "throws" -> RetThrow("LayerError")
      [] layer = "stop" -> RetStop
      [] layer = "dataA" -> RetData(With(EmptyObj, "a", Str("a")))
      [] layer = "dataA2B" ->
            RetData(With(With(EmptyObj, "a", Num("0")), "b", Str("b")))
      [] layer = "user" -> RetData(With(EmptyObj, "user", UserOf(req)))
      [] layer = "nestXY" ->
            RetData(With(EmptyObj, "n", Obj(With(With(EmptyObj, "x", Num("1")), "y", Num("2")))))
      [] layer = "nestX" -> RetData(With(EmptyObj, "n", Obj(With(EmptyObj, "x", Num("3")))))
      [] layer = "unknown" -> [RetObj EXCEPT !.has = {"other"}]
      [] layer = "null" -> RetNull
      [] layer = "hangs" -> IF req = 1 THEN RetNever ELSE RetUndefined
      [] layer = "stopFalse" ->
            [RetObj EXCEPT !.has = {"stop", "data"},
                           !.stop = Bool("false"),
                           !.data = With(EmptyObj, "a", Str("a"))]
      [] layer = "stopOne" -> [RetObj EXCEPT !.has = {"stop"}, !.stop = Num("1")]
      [] layer = "stopData" ->
            [RetObj EXCEPT !.has = {"stop", "data"},
                           !.stop = Bool("true"),
                           !.data = With(EmptyObj, "s", Str("s"))]

ApiLayers == {"void", "stop", "dataA", "dataA2B", "user", "throws"}

ApiEdgeLayers ==
    {"dataA", "nestXY", "nestX", "unknown", "null", "stopFalse", "stopOne", "stopData"}

\* The layers of the two-handler specification: "hangs" stays pending for
\* the first request; the twin of a layer returns the same but for its data.
PagePairLayers == {"dataA", "propsA", "hangs", "dataProps"}

ApiPairLayers == {"dataA", "hangs"}

Twin(layer) ==
    CASE layer = "dataA" -> "dataA2B"
      [] layer = "dataProps" -> "dataProps2"
      [] OTHER -> layer

\* The layers the full specification attaches with use().
BaseLayers == {"dataA", "user"}

\* The final functions of the tests, by name ("none": handler() without fn).
PageFnRet(fn, req, data, props) ==
    CASE fn = "fnProps" ->
            RetProps(With(With(EmptyObj, "a", Str("a2")), "b", Str("b")))
      [] fn = "fnEmptyProps" -> RetProps(EmptyObj)
      [] fn = "fnNotFound" ->
            [RetObj EXCEPT !.has = {"props", "notFound"},
                           !.props = With(EmptyObj, "shouldNot", Str("be here")),
                           !.notFound = Bool("true")]
      [] fn = "fnRedirect" ->
            [RetObj EXCEPT !.has = {"props", "redirect"},
                           !.props = With(EmptyObj, "shouldNot", Str("be here")),
                           !.redirect = Redirect("/")]
      [] fn = "fnNotFoundFalse" ->
            [RetObj EXCEPT !.has = {"props", "notFound"},
                           !.props = With(EmptyObj, "shouldNot", Str("be here")),
                           !.notFound = Bool("false")]
      [] fn = "fnRedirectUndef" -> [RetObj EXCEPT !.has = {"redirect"}]

PageEdgeFns == {"none", "fnProps", "fnNotFoundFalse", "fnRedirectUndef"}

PageFns == {"none", "fnProps", "fnEmptyProps", "fnNotFound", "fnRedirect"}

ApiFnRet(fn, req, data) ==
    CASE fn = "fnVoid" -> RetUndefined
      [] fn = "fnProps" -> RetProps(EmptyObj)
      [] fn = "fnData" -> RetData(With(EmptyObj, "z", Str("z")))

ApiFns == {"fnVoid", "fnProps"}

ApiEdgeFns == {"fnVoid", "fnProps", "fnData"}

\* ------------------------------------------------------------- builders
\* Mutation: this.layers.push(layer), the new builder sharing the array.
PushInPlace(arrs, ref, layer) ==
    [arrays |-> [arrs EXCEPT ![ref] = Append(@, layer)], ref |-> ref]

\* Mutation: [layer, ...this.layers].
SpreadPrepend(arrs, ref, layer) ==
    [arrays |-> Append(arrs, <<layer>> \o arrs[ref]), ref |-> Len(arrs) + 1]

\* Mutation: this.layers.push(layer), the new builder getting a copy.
PushAndCopy(arrs, ref, layer) ==
    [arrays |-> Append([arrs EXCEPT ![ref] = Append(@, layer)], Append(arrs[ref], layer)),
     ref |-> Len(arrs) + 1]

\* [...this.layers, layer]: a new array, the old one untouched.
SpreadAppend(arrs, ref, layer) ==
    [arrays |-> Append(arrs, Append(arrs[ref], layer)), ref |-> Len(arrs) + 1]

\* A builder object.  parent, added and base record how it was made: by
\* parent.use(added) when the parent's layers were base (0, "", <<>> for a
\* root builder).
NewBuilder(ref, parent, added, base) ==
    [layers |-> ref, parent |-> parent, added |-> added, base |-> base]

\* this.layers of builder b.
LayersOf(b) == arrays[builders[b].layers]

\* use(layer) on builder b.
Use(b, layer) ==
    /\ b \in DOMAIN builders
    /\ Len(builders) < MaxBuilders
    /\ LET r == SpreadAppend(arrays, builders[b].layers, layer)
       IN /\ arrays' = r.arrays
          /\ builders' = Append(builders, NewBuilder(r.ref, b, layer, LayersOf(b)))
    /\ UNCHANGED <<flavor, handlers, objects, execs>>

ApiUse(b, layer) == flavor = "api" /\ Use(b, layer)

PageUse(b, layer) == flavor = "page" /\ Use(b, layer)

\* Mutation: the factory wraps the layer in a check of the declared shape,
\* which throws.
ValidatingLayer(layer) == "throws"

\* The reusable-layer factories: (layer) => layer, the WithContext ones
\* after a first call without arguments (src/src/api.ts:127 and 152-157,
\* pages.ts lines 890-892, 920-929, 1001-1003 and 1031-1041).
apiLayer(layer) == layer
apiLayerWithContext(layer) == layer
serverLayer(layer) == layer
serverLayerWithContext(layer) == layer
staticLayer(layer) == layer
staticLayerWithContext(layer) == layer

ApiFactories == {"apiLayer", "apiLayerWithContext"}

PageFactories ==
    {"serverLayer", "serverLayerWithContext", "staticLayer", "staticLayerWithContext"}

\* factory(layer), by the factory's name.
Reusable(factory, layer) ==
    CASE factory = "apiLayer" -> apiLayer(layer)
      [] factory = "apiLayerWithContext" -> apiLayerWithContext(layer)
      [] factory = "serverLayer" -> serverLayer(layer)
      [] factory = "serverLayerWithContext" -> serverLayerWithContext(layer)
      [] factory = "staticLayer" -> staticLayer(layer)
      [] factory = "staticLayerWithContext" -> staticLayerWithContext(layer)

\* b.use(factory(layer)).
ApiUseReusable(b, factory, layer) == ApiUse(b, Reusable(factory, layer))

PageUseReusable(b, factory, layer) == PageUse(b, Reusable(factory, layer))

\* The async function handler(fn) returns: it closes over this (builder b)
\* and fn, and has no other state, so two closures over the same pair are
\* the same handler here.
Closure(b, fn) == [b |-> b, fn |-> fn]

\* handler(fn) on builder b.
Handler(b, fn) ==
    /\ b \in DOMAIN builders
    /\ Cardinality(handlers) < MaxHandlers
    /\ handlers' = handlers \cup {Closure(b, fn)}
    /\ UNCHANGED <<flavor, arrays, builders, objects, execs>>

ApiHandler(b, fn) == flavor = "api" /\ fn \in ApiFns /\ Handler(b, fn)

PageHandler(b, fn) == flavor = "page" /\ fn \in PageFns /\ Handler(b, fn)

\* ----------------------------------------------------------- executions
\* Mutation: one accumulator object made once and handed to every invocation.
AllocShared(objs) == IF objs = <<>> THEN Append(objs, EmptyObj) ELSE objs

\* const data = {}: a new object on the heap; the reference is its index.
Alloc(objs) == Append(objs, EmptyObj)

\* A call the engine made: of layer number idx (kind "layer") or of the
\* final function (kind "fn"), with the accumulators it was handed and what
\* it returned.
Call(kind, idx, name, data, props, ret) ==
    [kind |-> kind, idx |-> idx, name |-> name, data |-> data, props |-> props,
     ret |-> ret]

\* The layers a compiled handler reads when it runs: this.layers.
ChainOf(h) == LayersOf(h.b)

\* for (const layer of this.layers): the layer after number i
\* (src/src/api.ts:43, pages.ts line 772).
NextLayer(i) == i + 1

\* Mutation: the loop calls two layers before it awaits.
ApiEnterTwo(x, objs, i) ==
    LET chain == ChainOf(x.h)
        data == objs[x.dataRef]
        call(j) == Call("layer", j, chain[j], data, EmptyObj, ApiLayerRet(chain[j], x.req, data))
    IN IF i < Len(chain)
       THEN [x EXCEPT !.pc = "layer", !.idx = i + 1, !.pending = call(i + 1).ret,
                      !.calls = Append(Append(@, call(i)), call(i + 1))]
       ELSE IF i = Len(chain)
       THEN [x EXCEPT !.pc = "layer", !.idx = i, !.pending = call(i).ret,
                      !.calls = Append(@, call(i))]
       ELSE LET ret == ApiFnRet(x.h.fn, x.req, data)
            IN [x EXCEPT !.pc = "fn", !.idx = i, !.pending = ret,
                         !.calls = Append(@, Call("fn", i, x.h.fn, data, EmptyObj, ret))]

\* The api loop from layer number i on (src/src/api.ts:43-51): call the
\* next layer and suspend on it, or call fn and suspend on it.
ApiEnter(x, objs, i) ==
    LET chain == ChainOf(x.h)
        data == objs[x.dataRef]
    IN IF i <= Len(chain)
       THEN LET ret == ApiLayerRet(chain[i], x.req, data)
            IN [x EXCEPT !.pc = "layer", !.idx = i, !.pending = ret,
                         !.calls = Append(@, Call("layer", i, chain[i], data, EmptyObj, ret))]
       ELSE LET fn == x.h.fn
                ret == ApiFnRet(fn, x.req, data)
            IN [x EXCEPT !.pc = "fn", !.idx = i, !.pending = ret,
                         !.calls = Append(@, Call("fn", i, fn, data, EmptyObj, ret))]

\* await of a call's result comes back: one more of the calls made has
\* settled (src/src/api.ts:44 and 51, pages.ts lines 774 and 782).
Settle(x) == [x EXCEPT !.settled = @ + 1]

\* A fresh invocation record; settled counts the calls awaited to their end.
NewExec(h, req, dataRef, propsRef) ==
    [h |-> h, req |-> req, pc |-> "start", idx |-> 0, dataRef |-> dataRef,
     propsRef |-> propsRef, pending |-> RetUndefined, result |-> RetUndefined,
     error |-> "", calls |-> <<>>, settled |-> 0]

\* The compiled api handler is invoked (src/src/api.ts:40-44).
ApiRequest(h, cap) ==
    /\ flavor = "api"
    /\ h \in handlers
    /\ Len(execs) < cap
    /\ LET objs == Alloc(objects)
           x == NewExec(h, Len(execs) + 1, Len(objs), 0)
       IN /\ objects' = objs
          /\ execs' = Append(execs, ApiEnter(x, objs, 1))
    /\ UNCHANGED <<flavor, arrays, builders, handlers>>

\* Mutation: the await sits in a try block whose catch goes on.
RejectedNever(res) == FALSE

\* await layer(...) outside any try block (src/src/api.ts:44, pages.ts line
\* 774): an error of the layer is thrown on out of the compiled handler.
Rejected(res) == res.throws # ""

\* Mutation: a result with none of the keys the engine knows is rejected.
RejectsUnshaped(res) ==
    \/ res.isUndef
    \/ res.nonObject
    \/ res.has \cap {"data", "props", "stop", "notFound", "redirect"} = {}

\* "stop" in result, "notFound" in res: the in operator throws a TypeError
\* when its right operand is not an object (src/src/api.ts:46, pages.ts
\* line 775).
InThrows(res) == res.isUndef \/ res.nonObject

\* Mutation: the engine gives up on a pending layer and goes on.
SettlesAnyway(res) == TRUE

\* The promise a layer returned settles; await resumes only then
\* (src/src/api.ts:44, pages.ts line 774).
Settles(res) == ~res.never

\* Mutation: undefined is not recognised.
ApiSkipsNothing(result) == FALSE

\* result === undefined: the layer contributed nothing (src/src/api.ts:45).
ApiSkips(result) == result.isUndef

\* Mutation: the presence of the key stop decides, as in the page flavor.
ApiStopsOnKey(result) == "stop" \in result.has

\* Mutation: the test of result.stop negated.
ApiStopsInverted(result) == "stop" \in result.has /\ ~Truthy(result.stop)

\* "stop" in result && result.stop (src/src/api.ts:46).
ApiStops(result) == "stop" \in result.has /\ Truthy(result.stop)

\* The awaited result of an api layer arrives (src/src/api.ts:44-49).  The
\* in operator throws a TypeError on undefined, which line 45 keeps from
\* line 46.
ApiLayerResolved(e) ==
    /\ flavor = "api"
    /\ e \in DOMAIN execs
    /\ execs[e].pc = "layer"
    /\ Settles(execs[e].pending)
    /\ LET x == Settle(execs[e])
           result == x.pending
       IN IF Rejected(result)
          THEN /\ execs' = [execs EXCEPT ![e] = [x EXCEPT !.pc = "failed", !.error = result.throws]]
               /\ UNCHANGED objects
          ELSE IF ApiSkips(result)
          THEN /\ execs' = [execs EXCEPT ![e] = ApiEnter(x, objects, NextLayer(x.idx))]
               /\ UNCHANGED objects
          ELSE IF InThrows(result)
          THEN /\ execs' = [execs EXCEPT ![e] = [x EXCEPT !.pc = "failed", !.error = "TypeError"]]
               /\ UNCHANGED objects
          ELSE IF ApiStops(result)
          THEN /\ execs' = [execs EXCEPT ![e] = [x EXCEPT !.pc = "done", !.result = RetUndefined]]
               /\ UNCHANGED objects
          ELSE LET objs == IF "data" \in result.has
                           THEN [objects EXCEPT ![x.dataRef] = ObjectAssign(@, result.data)]
                           ELSE objects
               IN /\ objects' = objs
                  /\ execs' = [execs EXCEPT ![e] = ApiEnter(x, objs, NextLayer(x.idx))]
    /\ UNCHANGED <<flavor, arrays, builders, handlers>>

\* Mutation: the value of fn is dropped.
ApiResultNone(ret) == RetUndefined

\* return await fn(...): the value of fn is the value of the handler
\* (src/src/api.ts:51).
ApiResult(ret) == ret

\* The awaited result of the api final function arrives (src/src/api.ts:51).
ApiFnResolved(e) ==
    /\ flavor = "api"
    /\ e \in DOMAIN execs
    /\ execs[e].pc = "fn"
    /\ LET x == Settle(execs[e])
       IN execs' = [execs EXCEPT ![e] = [x EXCEPT !.pc = "done", !.result = ApiResult(x.pending)]]
    /\ UNCHANGED <<flavor, arrays, builders, handlers, objects>>

\* if (fn): handler() was given a final function (pages.ts line 781).
HasFn(fn) == fn # "none"

\* return { props }: the props accumulator as the payload.
PropsResult(props) == RetProps(props)

\* The page loop from layer number i on (pages.ts lines 772-788): call the
\* next layer, or fn, and suspend on it; without fn return { props }.
PageEnter(x, objs, i) ==
    LET chain == ChainOf(x.h)
        data == objs[x.dataRef]
        props == objs[x.propsRef]
        fn == x.h.fn
    IN IF i <= Len(chain)
       THEN LET ret == PageLayerRet(chain[i], x.req, data, props)
            IN [x EXCEPT !.pc = "layer", !.idx = i, !.pending = ret,
                         !.calls = Append(@, Call("layer", i, chain[i], data, props, ret))]
       ELSE IF HasFn(fn)
       THEN LET ret == PageFnRet(fn, x.req, data, props)
            IN [x EXCEPT !.pc = "fn", !.idx = i, !.pending = ret,
                         !.calls = Append(@, Call("fn", i, fn, data, props, ret))]
       ELSE [x EXCEPT !.pc = "done", !.idx = i, !.result = PropsResult(props)]

\* The compiled page handler is invoked (pages.ts lines 768-774).
PageRequest(h, cap) ==
    /\ flavor = "page"
    /\ h \in handlers
    /\ Len(execs) < cap
    /\ LET objs1 == Alloc(objects)
           objs2 == Alloc(objs1)
           x == NewExec(h, Len(execs) + 1, Len(objs1), Len(objs2))
       IN /\ objects' = objs2
          /\ execs' = Append(execs, PageEnter(x, objs2, 1))
    /\ UNCHANGED <<flavor, arrays, builders, handlers>>

\* Mutation: the value of the key decides, as in the api flavor.
PageLayerTerminalIfTruthy(res) ==
    \/ "notFound" \in res.has /\ Truthy(res.notFound)
    \/ "redirect" \in res.has /\ Truthy(res.redirect)

\* Mutation: only notFound ends the chain.
PageLayerNotFoundOnly(res) == "notFound" \in res.has

\* "notFound" in res || "redirect" in res, of a layer's result (pages.ts
\* line 775); the in operator throws a TypeError when res is undefined.
PageLayerIsTerminal(res) == "notFound" \in res.has \/ "redirect" \in res.has

\* Mutation: only notFound is passed through.
PageFnNotFoundOnly(res) == "notFound" \in res.has

\* "notFound" in res || "redirect" in res, of fn's result (pages.ts line 783).
PageFnIsTerminal(res) == "notFound" \in res.has \/ "redirect" \in res.has

\* Mutation: the layers' props win over fn's.
MergeFnPropsReversed(props, res) ==
    IF "props" \in res.has THEN ObjectAssign(res.props, props) ELSE props

\* Object.assign(props, await res.props) (pages.ts line 785).
MergeFnProps(props, res) ==
    IF "props" \in res.has THEN ObjectAssign(props, res.props) ELSE props

\* Mutation: res.data is copied into props as well.
PageMergeLeaky(objs, x, res) ==
    LET objs1 == IF "data" \in res.has
                 THEN [objs EXCEPT ![x.dataRef] = ObjectAssign(@, res.data),
                                   ![x.propsRef] = ObjectAssign(@, res.data)]
                 ELSE objs
    IN IF "props" \in res.has
       THEN [objs1 EXCEPT ![x.propsRef] = ObjectAssign(@, res.props)]
       ELSE objs1

\* Mutation: res.data goes to props and res.props to data.
PageMergeCrossed(objs, x, res) ==
    LET objs1 == IF "data" \in res.has
                 THEN [objs EXCEPT ![x.propsRef] = ObjectAssign(@, res.data)]
                 ELSE objs
    IN IF "props" \in res.has
       THEN [objs1 EXCEPT ![x.dataRef] = ObjectAssign(@, res.props)]
       ELSE objs1

\* if (res.data) Object.assign(data, res.data);
\* if (res.props) Object.assign(props, res.props); (pages.ts lines 777-778)
PageMerge(objs, x, res) ==
    LET objs1 == IF "data" \in res.has
                 THEN [objs EXCEPT ![x.dataRef] = ObjectAssign(@, res.data)]
                 ELSE objs
    IN IF "props" \in res.has
       THEN [objs1 EXCEPT ![x.propsRef] = ObjectAssign(@, res.props)]
       ELSE objs1

\* The awaited result of a page layer arrives (pages.ts lines 774-779).
\* res.data and res.props are objects when present, hence truthy.
PageLayerResolved(e) ==
    /\ flavor = "page"
    /\ e \in DOMAIN execs
    /\ execs[e].pc = "layer"
    /\ Settles(execs[e].pending)
    /\ LET x == Settle(execs[e])
           res == x.pending
       IN IF Rejected(res)
          THEN /\ execs' = [execs EXCEPT ![e] = [x EXCEPT !.pc = "failed", !.error = res.throws]]
               /\ UNCHANGED objects
          ELSE IF InThrows(res)
          THEN /\ execs' = [execs EXCEPT ![e] = [x EXCEPT !.pc = "failed", !.error = "TypeError"]]
               /\ UNCHANGED objects
          ELSE IF PageLayerIsTerminal(res)
          THEN /\ execs' = [execs EXCEPT ![e] = [x EXCEPT !.pc = "done", !.result = res]]
               /\ UNCHANGED objects
          ELSE LET objs2 == PageMerge(objects, x, res)
               IN /\ objects' = objs2
                  /\ execs' = [execs EXCEPT ![e] = PageEnter(x, objs2, NextLayer(x.idx))]
    /\ UNCHANGED <<flavor, arrays, builders, handlers>>

\* The awaited result of the page final function arrives (pages.ts lines
\* 782-785); a non-terminal result suspends once more on res.props.
PageFnResolved(e) ==
    /\ flavor = "page"
    /\ e \in DOMAIN execs
    /\ execs[e].pc = "fn"
    /\ LET x == Settle(execs[e])
           res == x.pending
       IN IF PageFnIsTerminal(res)
          THEN execs' = [execs EXCEPT ![e] = [x EXCEPT !.pc = "done", !.result = res]]
          ELSE execs' = [execs EXCEPT ![e] = [x EXCEPT !.pc = "props"]]
    /\ UNCHANGED <<flavor, arrays, builders, handlers, objects>>

\* The awaited res.props arrives: Object.assign(props, ...) and
\* return { props } (pages.ts lines 785-788).
PagePropsResolved(e) ==
    /\ flavor = "page"
    /\ e \in DOMAIN execs
    /\ execs[e].pc = "props"
    /\ LET x == execs[e]
           merged == MergeFnProps(objects[x.propsRef], x.pending)
       IN /\ objects' = [objects EXCEPT ![x.propsRef] = merged]
          /\ execs' = [execs EXCEPT ![e] = [x EXCEPT !.pc = "done", !.result = PropsResult(merged)]]
    /\ UNCHANGED <<flavor, arrays, builders, handlers>>

\* ------------------------------------------------------- specifications
\* apiMiddleware() / serverMiddleware() / staticMiddleware(): a root builder
\* with no layers, nothing compiled, nothing running.
Init ==
    /\ flavor \in {"api", "page"}
    /\ arrays = << <<>> >>
    /\ builders = <<NewBuilder(1, 0, "", <<>>)>>
    /\ handlers = {}
    /\ objects = <<>>
    /\ execs = <<>>

Next ==
    \/ \E b \in 1..MaxBuilders, layer \in BaseLayers : ApiUse(b, layer)
    \/ \E b \in 1..MaxBuilders, layer \in BaseLayers : PageUse(b, layer)
    \/ \E b \in 1..MaxBuilders : ApiHandler(b, "fnVoid")
    \/ \E b \in 1..MaxBuilders : PageHandler(b, "fnProps")
    \/ \E h \in handlers : ApiRequest(h, MaxExecs)
    \/ \E h \in handlers : PageRequest(h, MaxExecs)
    \/ \E e \in 1..MaxExecs : ApiLayerResolved(e)
    \/ \E e \in 1..MaxExecs : ApiFnResolved(e)
    \/ \E e \in 1..MaxExecs : PageLayerResolved(e)
    \/ \E e \in 1..MaxExecs : PageFnResolved(e)
    \/ \E e \in 1..MaxExecs : PagePropsResolved(e)

Spec == Init /\ [][Next]_vars

\* All sequences over S of length at most n.
RECURSIVE SeqsUpTo(_, _)
SeqsUpTo(S, n) ==
    IF n = 0 THEN {<<>>}
    ELSE LET shorter == SeqsUpTo(S, n - 1)
         IN shorter \cup {Append(s, x) : s \in {t \in shorter : Len(t) = n - 1}, x \in S}

\* One handler compiled from a builder whose chain was made by use() calls
\* before: any chain of the test layers, any final function.
InitRun ==
    /\ flavor \in {"api", "page"}
    /\ \E chain \in SeqsUpTo(IF flavor = "api" THEN ApiLayers ELSE PageLayers, MaxLayers) :
          /\ arrays = <<chain>>
          /\ builders = <<NewBuilder(1, 0, "", <<>>)>>
    /\ \E fn \in (IF flavor = "api" THEN ApiFns ELSE PageFns) :
          handlers = {Closure(1, fn)}
    /\ objects = <<>>
    /\ execs = <<>>

NextRun ==
    \/ \E h \in handlers : ApiRequest(h, MaxRuns)
    \/ \E h \in handlers : PageRequest(h, MaxRuns)
    \/ \E e \in 1..MaxRuns : ApiLayerResolved(e)
    \/ \E e \in 1..MaxRuns : ApiFnResolved(e)
    \/ \E e \in 1..MaxRuns : PageLayerResolved(e)
    \/ \E e \in 1..MaxRuns : PageFnResolved(e)
    \/ \E e \in 1..MaxRuns : PagePropsResolved(e)

SpecRun == InitRun /\ [][NextRun]_vars

\* One handler compiled over a chain of layers outside the declared
\* result types, invoked as in the single-run specification.
InitEdge ==
    /\ flavor \in {"api", "page"}
    /\ \E chain \in SeqsUpTo(IF flavor = "api" THEN ApiEdgeLayers ELSE PageEdgeLayers, MaxLayers) :
          /\ arrays = <<chain>>
          /\ builders = <<NewBuilder(1, 0, "", <<>>)>>
    /\ \E fn \in (IF flavor = "api" THEN ApiEdgeFns ELSE PageEdgeFns) :
          handlers = {Closure(1, fn)}
    /\ objects = <<>>
    /\ execs = <<>>

SpecEdge == InitEdge /\ [][NextRun]_vars

\* Two handlers, compiled with the same final function from two builders
\* whose chains are twins, and up to MaxExecs interleaved invocations of
\* them.
InitPair ==
    /\ flavor \in {"api", "page"}
    /\ \E chain \in SeqsUpTo(IF flavor = "api" THEN ApiPairLayers ELSE PagePairLayers,
                              MaxPairLayers) :
          /\ arrays = <<chain, [i \in DOMAIN chain |-> Twin(chain[i])]>>
          /\ builders = <<NewBuilder(1, 0, "", <<>>), NewBuilder(2, 0, "", <<>>)>>
    /\ \E fn \in (IF flavor = "api" THEN {"fnVoid"} ELSE {"none", "fnProps"}) :
          handlers = {Closure(1, fn), Closure(2, fn)}
    /\ objects = <<>>
    /\ execs = <<>>

NextPair ==
    \/ \E h \in handlers : ApiRequest(h, MaxExecs)
    \/ \E h \in handlers : PageRequest(h, MaxExecs)
    \/ \E e \in 1..MaxExecs : ApiLayerResolved(e)
    \/ \E e \in 1..MaxExecs : ApiFnResolved(e)
    \/ \E e \in 1..MaxExecs : PageLayerResolved(e)
    \/ \E e \in 1..MaxExecs : PageFnResolved(e)
    \/ \E e \in 1..MaxExecs : PagePropsResolved(e)

SpecPair == InitPair /\ [][NextPair]_vars

\* Builders and the handlers compiled from them, attaching layers directly
\* and through the factories, with up to MaxRuns invocations.
NextBuild ==
    \/ \E b \in 1..MaxBuilders, layer \in BaseLayers : ApiUse(b, layer)
    \/ \E b \in 1..MaxBuilders, layer \in BaseLayers : PageUse(b, layer)
    \/ \E b \in 1..MaxBuilders, factory \in ApiFactories, layer \in BaseLayers :
            ApiUseReusable(b, factory, layer)
    \/ \E b \in 1..MaxBuilders, factory \in PageFactories, layer \in BaseLayers :
            PageUseReusable(b, factory, layer)
    \/ \E b \in 1..MaxBuilders : ApiHandler(b, "fnVoid")
    \/ \E b \in 1..MaxBuilders : PageHandler(b, "fnProps")
    \/ \E h \in handlers : ApiRequest(h, MaxRuns)
    \/ \E h \in handlers : PageRequest(h, MaxRuns)
    \/ \E e \in 1..MaxRuns : ApiLayerResolved(e)
    \/ \E e \in 1..MaxRuns : ApiFnResolved(e)
    \/ \E e \in 1..MaxRuns : PageLayerResolved(e)
    \/ \E e \in 1..MaxRuns : PageFnResolved(e)
    \/ \E e \in 1..MaxRuns : PagePropsResolved(e)

SpecBuild == Init /\ [][NextBuild]_vars

\* --------------------------------------------------------------- claims
\* The calls of layers an invocation made, and its call of fn if any.
IsLayerCall(c) == c.kind = "layer"
IsFnCall(c) == c.kind = "fn"

\* The function returned, and returned undefined.
ReturnsNothing(ret) == ret.isUndef /\ ret.throws = ""

\* { stop: true } in the api flavor, notFound or redirect in the page flavor.
TerminalOutcome(ret) ==
    /\ ~ret.isUndef
    /\ IF flavor = "api"
       THEN "stop" \in ret.has /\ ret.stop = Bool("true")
       ELSE "notFound" \in ret.has \/ "redirect" \in ret.has

\* What a returned object contributes to the accumulator named acc.
Contribution(ret, acc) ==
    IF ret.isUndef \/ acc \notin ret.has THEN EmptyObj
    ELSE IF acc = "data" THEN ret.data ELSE ret.props

\* The accumulator named acc as a call received it.
Handed(c, acc) == IF acc = "data" THEN c.data ELSE c.props

\* The accumulators a flavor has.
Accumulators == IF flavor = "api" THEN {"data"} ELSE {"data", "props"}

\* C1: in both flavors, once layer i has returned a terminal outcome
\* ({ stop: true }; notFound or redirect), the invocation calls no layer
\* after i and does not call the final handler.
C1_TerminalEndsChain ==
    \A e \in DOMAIN execs :
        \A i \in DOMAIN execs[e].calls :
            (IsLayerCall(execs[e].calls[i]) /\ TerminalOutcome(execs[e].calls[i].ret))
                => i = Len(execs[e].calls)

\* An invocation ended by a terminal layer that had later layers and a
\* final function behind it.
C1_Witness ==
    \E e \in DOMAIN execs :
        LET x == execs[e]
            n == Len(x.calls)
        IN /\ x.pc = "done"
           /\ n >= 1
           /\ IsLayerCall(x.calls[n])
           /\ TerminalOutcome(x.calls[n].ret)
           /\ n < Len(ChainOf(x.h))
           /\ x.h.fn # "none"

\* The positions of the layer calls of x that returned a terminal outcome.
TerminalCalls(x) ==
    {i \in DOMAIN x.calls : IsLayerCall(x.calls[i]) /\ TerminalOutcome(x.calls[i].ret)}

\* The least element of a non-empty set of numbers.
Least(S) == CHOOSE i \in S : \A j \in S : i <= j

\* C2: page flavor: when a layer returned a terminal outcome, the result of
\* the finished invocation is exactly what the first such layer returned,
\* and it has no props or data of the layers before it.
C2_FirstTerminalIsResult ==
    \A e \in DOMAIN execs :
        LET x == execs[e]
        IN (flavor = "page" /\ x.pc = "done" /\ TerminalCalls(x) # {})
            => /\ x.result = x.calls[Least(TerminalCalls(x))].ret
               /\ "props" \notin x.result.has
               /\ "data" \notin x.result.has

\* A redirect returned after layers that had filled props, with a notFound
\* layer behind it in the chain.
C2_Witness ==
    \E e \in DOMAIN execs :
        LET x == execs[e]
            n == Len(x.calls)
        IN /\ flavor = "page"
           /\ x.pc = "done"
           /\ n >= 2
           /\ "redirect" \in x.calls[n].ret.has
           /\ x.calls[n].props # EmptyObj
           /\ n < Len(ChainOf(x.h))
           /\ ChainOf(x.h)[n + 1] = "notFound"
           /\ x.result = RetRedirect("/")

\* The positions before n of the layer calls of x that set key k of acc.
Setters(x, n, acc, k) ==
    {i \in 1..(n - 1) :
        IsLayerCall(x.calls[i]) /\ k \in DOMAIN Contribution(x.calls[i].ret, acc)}

\* The greatest element of a non-empty set of numbers.
Greatest(S) == CHOOSE i \in S : \A j \in S : j <= i

\* The keys the layers called before position n of x set in acc.
KeysSet(x, n, acc) ==
    UNION {DOMAIN Contribution(x.calls[i].ret, acc) :
              i \in {j \in 1..(n - 1) : IsLayerCall(x.calls[j])}}

\* C3: the value the final handler sees for a key of data (or props) is the
\* value of the last layer in chain order that set it, whatever the types
\* of the earlier values; a key only earlier layers set keeps its value.
C3_LastLayerWins ==
    \A e \in DOMAIN execs :
        LET x == execs[e]
        IN \A n \in DOMAIN x.calls :
            IsFnCall(x.calls[n]) =>
                \A acc \in Accumulators :
                    \A k \in KeysSet(x, n, acc) :
                        /\ k \in DOMAIN Handed(x.calls[n], acc)
                        /\ Handed(x.calls[n], acc)[k] =
                              Contribution(x.calls[Greatest(Setters(x, n, acc, k))].ret, acc)[k]

\* The final handler is called after a layer overwrote key a with a value of
\* another type than an earlier layer's, while key b of the earlier layer
\* is still there.
C3_Witness ==
    \E e \in DOMAIN execs :
        LET x == execs[e]
            n == Len(x.calls)
        IN /\ n = 3
           /\ IsFnCall(x.calls[n])
           /\ x.calls[1].ret.data = With(With(EmptyObj, "a", Num("0")), "b", Str("b"))
           /\ x.calls[2].ret.data = With(EmptyObj, "a", Str("a"))
           /\ x.calls[n].data = With(With(EmptyObj, "a", Str("a")), "b", Str("b"))

\* The layer calls of x before position n contribute pairwise disjoint keys
\* to acc.
DisjointContributions(x, n, acc) ==
    \A i, j \in 1..(n - 1) :
        i # j =>
            DOMAIN Contribution(x.calls[i].ret, acc)
                \cap DOMAIN Contribution(x.calls[j].ret, acc) = {}

\* C4: when the layers contribute pairwise disjoint keys and none
\* terminates, the accumulator handed to the final handler is the union of
\* the contributions: no key lost, no key added.
C4_DisjointUnion ==
    \A e \in DOMAIN execs :
        LET x == execs[e]
        IN \A n \in DOMAIN x.calls :
            \A acc \in Accumulators :
                (IsFnCall(x.calls[n]) /\ DisjointContributions(x, n, acc)) =>
                    /\ DOMAIN Handed(x.calls[n], acc) = KeysSet(x, n, acc)
                    /\ \A i \in 1..(n - 1) :
                          \A k \in DOMAIN Contribution(x.calls[i].ret, acc) :
                              /\ k \in DOMAIN Handed(x.calls[n], acc)
                              /\ Handed(x.calls[n], acc)[k] =
                                    Contribution(x.calls[i].ret, acc)[k]

\* The final handler is called after three layers, two of which contributed
\* disjoint keys of data and one nothing.
C4_Witness ==
    \E e \in DOMAIN execs :
        LET x == execs[e]
            n == Len(x.calls)
        IN /\ n = 4
           /\ IsFnCall(x.calls[n])
           /\ DisjointContributions(x, n, "data")
           /\ x.calls[n].data = With(With(EmptyObj, "a", Str("a")), "user", UserOf(x.req))
           /\ \E i \in 1..3 : Contribution(x.calls[i].ret, "data") = EmptyObj

\* The names of the layers an invocation called, in call order.
RECURSIVE LayerNames(_)
LayerNames(calls) ==
    IF calls = <<>> THEN <<>>
    ELSE IF IsLayerCall(calls[Len(calls)])
         THEN Append(LayerNames(SubSeq(calls, 1, Len(calls) - 1)), calls[Len(calls)].name)
         ELSE LayerNames(SubSeq(calls, 1, Len(calls) - 1))

\* The elements of a sequence.
Range(s) == {s[i] : i \in DOMAIN s}

\* s is a prefix of t.
IsPrefix(s, t) == Len(s) <= Len(t) /\ SubSeq(t, 1, Len(s)) = s

\* b1 and b2 were made from the same builder by use(x) and use(y), x # y,
\* and y is none of that builder's layers.
Branches(b1, b2) ==
    /\ b1 # b2
    /\ builders[b1].parent # 0
    /\ builders[b1].parent = builders[b2].parent
    /\ builders[b1].added # builders[b2].added
    /\ builders[b2].added \notin Range(builders[b1].base)

\* C5: for B1 = B.use(x) and B2 = B.use(y), every invocation of a handler
\* compiled from B1 calls the layers B had and then x, in this order, and
\* never y, whatever the order of the use, handler and invocation steps.
C5_BranchesDoNotMix ==
    \A e \in DOMAIN execs :
        LET x == execs[e]
            b1 == x.h.b
        IN /\ builders[b1].parent # 0 =>
                 IsPrefix(LayerNames(x.calls),
                          Append(builders[b1].base, builders[b1].added))
           /\ \A b2 \in DOMAIN builders :
                 Branches(b1, b2) =>
                    builders[b2].added \notin Range(LayerNames(x.calls))

\* Handlers compiled from both branches of a builder have each run to the
\* end, calling the layer of their own branch.
C5_Witness ==
    \E e1, e2 \in DOMAIN execs :
        /\ Branches(execs[e1].h.b, execs[e2].h.b)
        /\ execs[e1].pc = "done"
        /\ execs[e2].pc = "done"
        /\ LayerNames(execs[e1].calls) = <<builders[execs[e1].h.b].added>>
        /\ LayerNames(execs[e2].calls) = <<builders[execs[e2].h.b].added>>

\* C6: page flavor, no terminal outcome: the result is { props: M }, M the
\* props of the layers with the props the final handler returned merged
\* over them: the handler's value for every key of both, the layers' value
\* for keys only they have.
C6_HandlerPropsWin ==
    \A e \in DOMAIN execs :
        LET x == execs[e]
            n == Len(x.calls)
        IN (flavor = "page" /\ x.pc = "done" /\ n >= 1 /\ IsFnCall(x.calls[n])
                /\ ~TerminalOutcome(x.calls[n].ret)) =>
            LET layersProps == x.calls[n].props
                fnProps == Contribution(x.calls[n].ret, "props")
            IN /\ x.result.has = {"props"}
               /\ ~x.result.isUndef
               /\ DOMAIN x.result.props = DOMAIN layersProps \cup DOMAIN fnProps
               /\ \A k \in DOMAIN x.result.props :
                     x.result.props[k] =
                        IF k \in DOMAIN fnProps THEN fnProps[k] ELSE layersProps[k]

\* The handler returned a for which a layer had another value, and a layer's
\* key the handler did not return is in the result.
C6_Witness ==
    \E e \in DOMAIN execs :
        LET x == execs[e]
            n == Len(x.calls)
        IN /\ flavor = "page"
           /\ x.pc = "done"
           /\ n >= 1
           /\ IsFnCall(x.calls[n])
           /\ "a" \in DOMAIN x.calls[n].props
           /\ "client" \in DOMAIN x.calls[n].props
           /\ x.calls[n].ret.props = With(With(EmptyObj, "a", Str("a2")), "b", Str("b"))
           /\ x.calls[n].props["a"] # Str("a2")
           /\ x.result.props =
                 With(With(With(EmptyObj, "a", Str("a2")), "b", Str("b")),
                      "client", UserOf(x.req))

\* Call i of x returned nothing, and what follows: while the invocation has
\* made no further call it is suspended on that layer with its data as they
\* were; the next call is that of the next layer, or of fn after the last
\* layer, with the same accumulators.
ContinuesUnchanged(x, i) ==
    /\ i = Len(x.calls) =>
          /\ x.pc = "layer"
          /\ x.idx = i
          /\ objects[x.dataRef] = x.calls[i].data
    /\ i < Len(x.calls) =>
          /\ x.calls[i + 1].data = x.calls[i].data
          /\ x.calls[i + 1].props = x.calls[i].props
          /\ x.calls[i + 1].idx = i + 1
          /\ IF i < Len(ChainOf(x.h))
             THEN IsLayerCall(x.calls[i + 1]) /\ x.calls[i + 1].name = ChainOf(x.h)[i + 1]
             ELSE IsFnCall(x.calls[i + 1])

\* C7: api flavor: a layer that returns undefined leaves data unchanged and
\* does not end the chain: the next layer, or the final handler after the
\* last layer, is called with the same data.
C7_ApiVoidContinues ==
    \A e \in DOMAIN execs :
        \A i \in DOMAIN execs[e].calls :
            (flavor = "api" /\ IsLayerCall(execs[e].calls[i])
                /\ ReturnsNothing(execs[e].calls[i].ret))
                => ContinuesUnchanged(execs[e], i)

\* The final handler was called with the data a layer before a void last
\* layer had set.
C7_Witness ==
    \E e \in DOMAIN execs :
        LET x == execs[e]
            n == Len(x.calls)
        IN /\ flavor = "api"
           /\ n >= 3
           /\ IsFnCall(x.calls[n])
           /\ ReturnsNothing(x.calls[n - 1].ret)
           /\ x.calls[n].data # EmptyObj
           /\ x.pc = "done"

\* C8: page flavor: a layer whose result is an empty object or undefined
\* changes neither data nor props and the invocation goes on to the next
\* layer or the final handler (or, without one, returns { props }); such a
\* layer never aborts the invocation.
C8_PageEmptyContinues ==
    \A e \in DOMAIN execs :
        LET x == execs[e]
        IN \A i \in DOMAIN x.calls :
            (flavor = "page" /\ IsLayerCall(x.calls[i])
                /\ (ReturnsNothing(x.calls[i].ret)
                        \/ (~x.calls[i].ret.isUndef /\ x.calls[i].ret.has = {}))) =>
                /\ x.pc # "failed"
                /\ i = Len(x.calls) =>
                      \/ /\ x.pc = "layer"
                         /\ objects[x.dataRef] = x.calls[i].data
                         /\ objects[x.propsRef] = x.calls[i].props
                      \/ /\ x.pc = "done"
                         /\ x.h.fn = "none"
                         /\ i = Len(ChainOf(x.h))
                         /\ x.result = RetProps(x.calls[i].props)
                /\ i < Len(x.calls) =>
                      /\ x.calls[i + 1].data = x.calls[i].data
                      /\ x.calls[i + 1].props = x.calls[i].props

\* C9: page flavor: when the final handler's result has notFound or
\* redirect, the result of the invocation is that object as it is, its
\* notFound or redirect included, with the handler's own props and none of
\* the layers'.
C9_HandlerTerminalVerbatim ==
    \A e \in DOMAIN execs :
        LET x == execs[e]
            n == Len(x.calls)
        IN (flavor = "page" /\ n >= 1 /\ IsFnCall(x.calls[n])
                /\ TerminalOutcome(x.calls[n].ret) /\ x.pc \notin {"fn"}) =>
            /\ x.pc = "done"
            /\ x.result = x.calls[n].ret
            /\ \A k \in DOMAIN x.calls[n].props : k \notin DOMAIN x.result.props

\* The final handler returned a redirect after the layers had filled props.
C9_Witness ==
    \E e \in DOMAIN execs :
        LET x == execs[e]
            n == Len(x.calls)
        IN /\ flavor = "page"
           /\ x.pc = "done"
           /\ n >= 2
           /\ IsFnCall(x.calls[n])
           /\ "redirect" \in x.calls[n].ret.has
           /\ x.calls[n].props # EmptyObj
           /\ x.result.redirect = Redirect("/")

\* The accumulator objects of an invocation.
OwnRefs(x) == IF flavor = "api" THEN {x.dataRef} ELSE {x.dataRef, x.propsRef}

\* Every key of accumulator object o holds a value that call of x returned
\* for it in acc, or (props only) that its final function returned.
OnlyOwn(x, o, acc) ==
    \A k \in DOMAIN o :
        \E i \in DOMAIN x.calls :
            /\ IsLayerCall(x.calls[i]) \/ acc = "props"
            /\ k \in DOMAIN Contribution(x.calls[i].ret, acc)
            /\ Contribution(x.calls[i].ret, acc)[k] = o[k]

\* C10: every invocation has accumulator objects of its own that start
\* empty: whatever the interleaving of invocations at their awaits, and
\* whatever invocations finished before, the accumulators, the arguments
\* of the calls and the result of one invocation hold only what its own
\* layers (and final handler) contributed.
C10_AccumulatorsAreOwn ==
    \A e \in DOMAIN execs :
        LET x == execs[e]
        IN /\ \A f \in DOMAIN execs : f # e => OwnRefs(x) \cap OwnRefs(execs[f]) = {}
           /\ x.calls # <<>> =>
                 x.calls[1].data = EmptyObj /\ x.calls[1].props = EmptyObj
           /\ OnlyOwn(x, objects[x.dataRef], "data")
           /\ flavor = "page" => OnlyOwn(x, objects[x.propsRef], "props")
           /\ \A i \in DOMAIN x.calls :
                 /\ OnlyOwn(x, x.calls[i].data, "data")
                 /\ OnlyOwn(x, x.calls[i].props, "props")
           /\ x.pc = "done" => OnlyOwn(x, x.result.props, "props")

\* Two invocations suspended at the same time, each with the user of its own
\* request in its data.
C10_Witness ==
    \E e, f \in DOMAIN execs :
        /\ e # f
        /\ execs[e].pc \in {"layer", "fn", "props"}
        /\ execs[f].pc \in {"layer", "fn", "props"}
        /\ "user" \in DOMAIN objects[execs[e].dataRef]
        /\ "user" \in DOMAIN objects[execs[f].dataRef]
        /\ objects[execs[e].dataRef]["user"] # objects[execs[f].dataRef]["user"]

\* C11: an error that layer i throws (or rejects with) is not caught: the
\* invocation fails with that same error and has no result, no layer after
\* i and not the final handler is called, the accumulators stay as layer i
\* got them, and no layer is called a second time.
C11_LayerErrorPropagates ==
    \A e \in DOMAIN execs :
        LET x == execs[e]
        IN /\ \A i, j \in DOMAIN x.calls :
                 (i # j /\ IsLayerCall(x.calls[i]) /\ IsLayerCall(x.calls[j]))
                    => x.calls[i].idx # x.calls[j].idx
           /\ \A i \in DOMAIN x.calls :
                 (IsLayerCall(x.calls[i]) /\ x.calls[i].ret.throws # "") =>
                    /\ i = Len(x.calls)
                    /\ x.pc \in {"layer", "failed"}
                    /\ x.pc = "failed" => x.error = x.calls[i].ret.throws
                    /\ x.result = RetUndefined
                    /\ objects[x.dataRef] = x.calls[i].data
                    /\ flavor = "page" => objects[x.propsRef] = x.calls[i].props

\* An invocation failed with the error of its second layer, with data
\* already set and a layer and a final function still to come.
C11_Witness ==
    \E e \in DOMAIN execs :
        LET x == execs[e]
        IN /\ x.pc = "failed"
           /\ x.error = "LayerError"
           /\ Len(x.calls) = 2
           /\ x.calls[2].data # EmptyObj
           /\ Len(ChainOf(x.h)) = 3
           /\ x.h.fn # "none"

\* The in-order merge of what the layer calls before position n of x
\* contributed to acc: every key set, with the value of its last setter.
MergeOf(x, n, acc) ==
    [k \in KeysSet(x, n, acc) |->
        Contribution(x.calls[Greatest(Setters(x, n, acc, k))].ret, acc)[k]]

\* C12: page flavor: a handler compiled without a final function whose
\* layers all returned, none of them with a terminal outcome, completes
\* with { props: P }, P being the in-order merge of the props of all its
\* layers; no final handler is called.
C12_NoFinalFunction ==
    \A e \in DOMAIN execs :
        LET x == execs[e]
            n == Len(x.calls)
        IN (flavor = "page" /\ x.h.fn = "none") =>
              /\ \A i \in DOMAIN x.calls : IsLayerCall(x.calls[i])
              /\ x.pc \notin {"fn", "props"}
              /\ (/\ x.pc \in {"done", "failed"}
                  /\ TerminalCalls(x) = {}
                  /\ \A i \in DOMAIN x.calls : x.calls[i].ret.throws = "") =>
                    /\ x.pc = "done"
                    /\ n = Len(ChainOf(x.h))
                    /\ x.result = RetProps(MergeOf(x, n + 1, "props"))

\* C13: the reusable-layer factories are the identity at run time: use()
\* of a layer passed through any factory is, step for step, use() of the
\* layer itself (same builder, same chain, hence the same invocations,
\* accumulators and results afterwards), with no check of the declared
\* shape.
C13_FactoriesAreIdentity ==
    [][\A b \in 1..MaxBuilders, layer \in BaseLayers :
          /\ \A factory \in ApiFactories :
                ApiUseReusable(b, factory, layer) => ApiUse(b, layer)
          /\ \A factory \in PageFactories :
                PageUseReusable(b, factory, layer) => PageUse(b, layer)]_vars

\* A handler whose two layers were attached with use() ran to its end, the
\* second layer having been handed the data of the first.
C13_Witness ==
    \E e \in DOMAIN execs :
        LET x == execs[e]
        IN /\ x.pc = "done"
           /\ builders[x.h.b].parent # 0
           /\ Len(ChainOf(x.h)) = 2
           /\ Len(x.calls) = 3
           /\ x.calls[2].data # EmptyObj
           /\ x.calls[2].ret.throws = ""

\* Layer call i of x returned, and not with a terminal outcome.
WentOn(x, i) ==
    /\ x.calls[i].ret.throws = ""
    /\ ~TerminalOutcome(x.calls[i].ret)

\* C15: the k-th call of an invocation is the call of layer k of the
\* chain (chain order, index rising by one, so no layer twice), a layer is
\* called once all layers before it have returned without a terminal
\* outcome, and the final handler is called at most once, last, and only
\* after every layer of the chain was called and returned so.
C15_ChainOrder ==
    \A e \in DOMAIN execs :
        LET x == execs[e]
            chain == ChainOf(x.h)
            n == Len(x.calls)
        IN /\ \A i \in DOMAIN x.calls :
                 /\ x.calls[i].idx = i
                 /\ IsLayerCall(x.calls[i]) =>
                        i <= Len(chain) /\ x.calls[i].name = chain[i]
                 /\ IsFnCall(x.calls[i]) =>
                        /\ i = Len(chain) + 1
                        /\ i = n
                        /\ x.calls[i].name = x.h.fn
                        /\ \A j \in 1..(i - 1) : IsLayerCall(x.calls[j]) /\ WentOn(x, j)
                 /\ i < n => WentOn(x, i)
           /\ (x.pc # "start" /\ n < Len(chain)) =>
                 /\ n >= 1
                 /\ x.pc = "layer" \/ ~WentOn(x, n)
           /\ (x.pc # "start" /\ n = Len(chain)) =>
                 \/ n >= 1 /\ (x.pc = "layer" \/ ~WentOn(x, n))
                 \/ flavor = "page" /\ x.h.fn = "none" /\ x.pc = "done"

\* The calls of x still in flight: made and not yet awaited to their end.
InFlight(x) == Len(x.calls) - x.settled

\* C16: an invocation has at most one call of a layer or of the final
\* handler in flight, and a call is made only when all calls before it
\* have settled and the contribution of the one before it is merged into
\* what the new call is handed.
C16_OneInFlight ==
    \A e \in DOMAIN execs :
        LET x == execs[e]
        IN /\ InFlight(x) \in {0, 1}
           /\ InFlight(x) = 1 <=> x.pc \in {"layer", "fn"}
           /\ \A i \in DOMAIN x.calls :
                 i > 1 =>
                    \A acc \in Accumulators :
                        \A k \in DOMAIN Contribution(x.calls[i - 1].ret, acc) :
                            /\ k \in DOMAIN Handed(x.calls[i], acc)
                            /\ Handed(x.calls[i], acc)[k]
                                    = Contribution(x.calls[i - 1].ret, acc)[k]

\* The second of three layers is in flight: the first has settled and its
\* data is merged, the third and the final function are not yet called.
C16_Witness ==
    \E e \in DOMAIN execs :
        LET x == execs[e]
        IN /\ x.pc = "layer"
           /\ x.idx = 2
           /\ x.settled = 1
           /\ Len(x.calls) = 2
           /\ x.calls[2].data # EmptyObj
           /\ Len(ChainOf(x.h)) = 3

\* C17: every call of a layer, and the call of the final handler, is
\* handed accumulators equal to the in-order merge of the contributions of
\* all layers called before it, which is empty for the first layer.
C17_HandedMergeOfEarlier ==
    \A e \in DOMAIN execs :
        LET x == execs[e]
        IN \A i \in DOMAIN x.calls :
            \A acc \in Accumulators :
                /\ Handed(x.calls[i], acc) = MergeOf(x, i, acc)
                /\ i = 1 => Handed(x.calls[i], acc) = EmptyObj

\* The final handler was called after three layers, two of which set the
\* same key of data and one another key.
C17_Witness ==
    \E e \in DOMAIN execs :
        LET x == execs[e]
        IN /\ Len(x.calls) = 4
           /\ IsFnCall(x.calls[4])
           /\ Cardinality(Setters(x, 4, "data", "a")) = 2
           /\ Cardinality(DOMAIN x.calls[4].data) >= 2
           /\ x.calls[2].data # EmptyObj
           /\ x.calls[3].data # x.calls[2].data

\* The accumulator named acc of invocation x, in the heap objs.
AccumulatorOf(objs, x, acc) ==
    IF acc = "data" THEN objs[x.dataRef] ELSE objs[x.propsRef]

\* C18: no step removes a key from an accumulator of an invocation: the
\* keys data (or props) has before a step it has after it, whatever
\* happens to their values.
C18_KeysNeverRemoved ==
    [][\A e \in DOMAIN execs :
          \A acc \in Accumulators :
              DOMAIN AccumulatorOf(objects, execs[e], acc)
                  \subseteq DOMAIN AccumulatorOf(objects', execs[e], acc)]_vars

\* The third layer is handed data in which the second layer overwrote,
\* with another value, a key the first had set, next to a second key.
C18_Witness ==
    \E e \in DOMAIN execs :
        LET x == execs[e]
        IN /\ Len(x.calls) >= 3
           /\ "a" \in DOMAIN x.calls[2].data
           /\ "a" \in DOMAIN x.calls[3].data
           /\ x.calls[2].data["a"] # x.calls[3].data["a"]
           /\ Cardinality(DOMAIN AccumulatorOf(objects, x, "data")) >= 2

\* The chain builder b was constructed with: none for the root builder,
\* its parent's chain of then followed by the layer given to use().
Made(b) ==
    IF builders[b].parent = 0 THEN <<>>
    ELSE Append(builders[b].base, builders[b].added)

\* C19: no step (use() or handler() on any builder, an invocation or a
\* step of one) changes the chain of a builder that exists, and every
\* invocation of a handler compiled from builder B calls the layers B was
\* constructed with, then the final handler.
C19_ChainNeverChanges ==
    /\ [][\A b \in DOMAIN builders :
             /\ builders'[b] = builders[b]
             /\ arrays'[builders'[b].layers] = arrays[builders[b].layers]]_vars
    /\ [](\A e \in DOMAIN execs :
             LET x == execs[e]
                 chain == Made(x.h.b)
             IN \A i \in DOMAIN x.calls :
                  /\ IsLayerCall(x.calls[i]) =>
                        /\ x.calls[i].idx <= Len(chain)
                        /\ x.calls[i].name = chain[x.calls[i].idx]
                  /\ IsFnCall(x.calls[i]) => x.calls[i].idx = Len(chain) + 1)

\* A handler compiled from a builder with one layer ran that layer and
\* the final function, use() on the same builder having made a builder
\* with a second layer.
C19_Witness ==
    \E e \in DOMAIN execs, c \in DOMAIN builders :
        LET x == execs[e]
        IN /\ x.pc = "done"
           /\ builders[c].parent = x.h.b
           /\ Len(LayersOf(x.h.b)) = 1
           /\ Len(LayersOf(c)) = 2
           /\ Len(x.calls) = 2
           /\ IsLayerCall(x.calls[1])
           /\ IsFnCall(x.calls[2])

\* C20: the builder B.use(x) returned has B's chain, in B's order,
\* followed by x as its last element, one layer longer than B's; and an
\* invocation that reaches the final handler has called the layers as
\* they stand in the chain, a layer attached twice being called twice.
C20_UseAppends ==
    /\ \A c \in DOMAIN builders :
          LET B == builders[c].parent
          IN B # 0 =>
                /\ c # B
                /\ Len(LayersOf(c)) = Len(LayersOf(B)) + 1
                /\ SubSeq(LayersOf(c), 1, Len(LayersOf(B))) = LayersOf(B)
                /\ LayersOf(c)[Len(LayersOf(c))] = builders[c].added
    /\ \A e \in DOMAIN execs :
          LET x == execs[e]
              chain == ChainOf(x.h)
          IN x.pc \in {"fn", "props", "done"} =>
                /\ Len(x.calls) >= Len(chain)
                /\ \A i \in 1..Len(chain) :
                      IsLayerCall(x.calls[i]) /\ x.calls[i].name = chain[i]

\* The same layer was attached twice, after another one, and an invocation
\* called it twice.
C20_Witness ==
    \E e \in DOMAIN execs :
        LET x == execs[e]
            chain == ChainOf(x.h)
        IN /\ x.pc = "done"
           /\ Len(chain) = 2
           /\ chain[1] = chain[2]
           /\ builders[x.h.b].added = chain[2]
           /\ builders[builders[x.h.b].parent].added = chain[1]
           /\ IsLayerCall(x.calls[1]) /\ IsLayerCall(x.calls[2])
           /\ x.calls[1].name = x.calls[2].name

\* The accumulator named acc right after layer call i of x was merged: what
\* the next call was handed, or what the accumulator holds now.
AfterCall(x, i, acc) ==
    IF i < Len(x.calls) THEN Handed(x.calls[i + 1], acc)
    ELSE AccumulatorOf(objects, x, acc)

\* Layer call i of x has been merged.
Merged(x, i) ==
    /\ IsLayerCall(x.calls[i])
    /\ WentOn(x, i)
    /\ i < Len(x.calls) \/ x.pc \in {"props", "done"}

\* C21: the merge is shallow: after a layer contributed a nested object
\* under key k, the accumulator's value for k is exactly that object, with
\* the contributed sub-keys only, whatever sub-keys the value of k had
\* before.
C21_MergeIsShallow ==
    \A e \in DOMAIN execs :
        LET x == execs[e]
        IN \A i \in DOMAIN x.calls :
            Merged(x, i) =>
                \A acc \in Accumulators :
                    LET c == Contribution(x.calls[i].ret, acc)
                    IN \A k \in DOMAIN c :
                        c[k].t = "object" =>
                            /\ k \in DOMAIN AfterCall(x, i, acc)
                            /\ AfterCall(x, i, acc)[k] = c[k]
                            /\ DOMAIN AfterCall(x, i, acc)[k].v = DOMAIN c[k].v

\* Key n held { x, y } when a layer contributed { x } for it: afterwards n
\* has x only, with the new value.
C21_Witness ==
    \E e \in DOMAIN execs :
        LET x == execs[e]
        IN \E i \in DOMAIN x.calls :
            /\ Merged(x, i)
            /\ "n" \in DOMAIN x.calls[i].data
            /\ DOMAIN x.calls[i].data["n"].v = {"x", "y"}
            /\ "n" \in DOMAIN Contribution(x.calls[i].ret, "data")
            /\ DOMAIN Contribution(x.calls[i].ret, "data")["n"].v = {"x"}
            /\ DOMAIN AfterCall(x, i, "data")["n"].v = {"x"}
            /\ AfterCall(x, i, "data")["n"].v["x"] = Num("3")

\* A returned value that is neither a partial accumulator nor a terminal
\* outcome nor undefined: null or a primitive, or an object with unknown
\* keys only.
Unshaped(ret) ==
    /\ ret.throws = ""
    /\ ~ret.isUndef
    /\ ret.nonObject \/ (ret.has # {} /\ ret.has \cap {"data", "props", "stop", "notFound", "redirect"} = {})

\* Layer call i of x was a no-op: once it has settled the invocation has
\* not failed, the accumulators are as the call got them, and the next
\* layer (or the final handler, or the completion without one) follows.
NoOp(x, i) ==
    /\ i = Len(x.calls) =>
          \/ x.pc = "layer"
          \/ /\ x.pc = "done"
             /\ flavor = "page" /\ x.h.fn = "none" /\ i = Len(ChainOf(x.h))
             /\ objects[x.dataRef] = x.calls[i].data
             /\ objects[x.propsRef] = x.calls[i].props
             /\ x.result = RetProps(x.calls[i].props)
    /\ i < Len(x.calls) =>
          /\ x.calls[i + 1].idx = i + 1
          /\ \A acc \in Accumulators : Handed(x.calls[i + 1], acc) = Handed(x.calls[i], acc)

\* C22 as stated: in both flavors every layer result that is neither a
\* partial accumulator nor a terminal outcome is a no-op, with no error.
C22_UnshapedIsNoOp ==
    \A e \in DOMAIN execs :
        \A i \in DOMAIN execs[e].calls :
            (IsLayerCall(execs[e].calls[i]) /\ Unshaped(execs[e].calls[i].ret))
                => NoOp(execs[e], i)

\* C22, amended: in both flavors a layer result that is an object with
\* unknown keys only is a no-op: no error, accumulators unchanged, the
\* next step follows.  (null and primitives make the in operator throw.)
C22_UnknownKeysAreNoOp ==
    \A e \in DOMAIN execs :
        \A i \in DOMAIN execs[e].calls :
            (/\ IsLayerCall(execs[e].calls[i])
             /\ Unshaped(execs[e].calls[i].ret)
             /\ ~execs[e].calls[i].ret.nonObject)
                => NoOp(execs[e], i)

\* A layer with unknown keys only, between a layer that set data and the
\* final handler, which got that data.
C22_Witness ==
    \E e \in DOMAIN execs :
        LET x == execs[e]
        IN /\ Len(x.calls) = 3
           /\ x.calls[2].ret.has = {"other"}
           /\ x.calls[2].data # EmptyObj
           /\ IsFnCall(x.calls[3])
           /\ x.calls[3].data = x.calls[2].data
           /\ x.pc = "done"

\* The positions of the api layer calls of x that returned a truthy stop.
StopCalls(x) ==
    {i \in DOMAIN x.calls :
        /\ IsLayerCall(x.calls[i])
        /\ "stop" \in x.calls[i].ret.has
        /\ Truthy(x.calls[i].ret.stop)}

\* The positions of the calls of the final handler x made.
FnCalls(x) == {i \in DOMAIN x.calls : IsFnCall(x.calls[i])}

\* C23: api flavor: a finished invocation none of whose layers stopped
\* has called the final handler exactly once, with the merged data, and
\* has the value the final handler returned as its value, data being
\* left as the final handler got it; one in which a layer stopped has
\* called no final handler and has no value.
C23_ApiHandlerValue ==
    \A e \in DOMAIN execs :
        LET x == execs[e]
            n == Len(x.calls)
        IN flavor = "api" =>
              /\ Cardinality(FnCalls(x)) <= 1
              /\ (x.pc = "done" /\ StopCalls(x) = {}) =>
                    /\ FnCalls(x) = {n}
                    /\ n = Len(ChainOf(x.h)) + 1
                    /\ x.calls[n].data = MergeOf(x, n, "data")
                    /\ x.result = x.calls[n].ret
                    /\ objects[x.dataRef] = x.calls[n].data
              /\ (x.pc = "done" /\ StopCalls(x) # {}) =>
                    /\ FnCalls(x) = {}
                    /\ x.result = RetUndefined

\* The final handler returned { data: { z } } after two layers had set
\* data: that is the handler's value, and data has no z.
C23_Witness ==
    \E e \in DOMAIN execs :
        LET x == execs[e]
        IN /\ flavor = "api"
           /\ x.pc = "done"
           /\ Len(x.calls) = 3
           /\ x.h.fn = "fnData"
           /\ x.result = RetData(With(EmptyObj, "z", Str("z")))
           /\ Cardinality(DOMAIN objects[x.dataRef]) >= 2
           /\ "z" \notin DOMAIN objects[x.dataRef]

\* x is suspended on a layer whose promise never settles.
Stalled(x) == x.pc = "layer" /\ x.pending.never

\* C24: an invocation suspended on a layer that never resolves stays as it
\* is in every step: no result, no failure, no later call, no change of
\* its accumulators (the engine has no timeout); and it holds up no other
\* invocation: one suspended on a layer that settles can always resume.
C24_StalledStaysStalled ==
    /\ [][\A e \in DOMAIN execs :
             Stalled(execs[e]) =>
                /\ execs'[e] = execs[e]
                /\ \A acc \in Accumulators :
                      AccumulatorOf(objects', execs[e], acc)
                          = AccumulatorOf(objects, execs[e], acc)]_vars
    /\ [](\A e \in DOMAIN execs :
             (execs[e].pc = "layer" /\ ~execs[e].pending.never) =>
                ENABLED (ApiLayerResolved(e) \/ PageLayerResolved(e)))

\* The first invocation of a handler is stalled on the second layer of
\* its chain, the final handler not called, while a second invocation of
\* the same handler, begun after it, has run to its end.
C24_Witness ==
    \E e1, e2 \in DOMAIN execs :
        /\ e1 < e2
        /\ execs[e1].h = execs[e2].h
        /\ Stalled(execs[e1])
        /\ execs[e1].idx = 2
        /\ Len(execs[e1].calls) = 2
        /\ execs[e1].calls[2].data # EmptyObj
        /\ execs[e2].pc = "done"
        /\ Len(execs[e2].calls) = 3

\* A returned value without its data.
WithoutData(ret) == [ret EXCEPT !.data = EmptyObj, !.has = @ \ {"data"}]

\* Invocations x1 and x2 made the same calls and got the same values but
\* for the data the layers contributed.
DifferInDataOnly(x1, x2) ==
    /\ x1.h.fn = x2.h.fn
    /\ Len(x1.calls) = Len(x2.calls)
    /\ \A i \in DOMAIN x1.calls :
          /\ x1.calls[i].kind = x2.calls[i].kind
          /\ WithoutData(x1.calls[i].ret) = WithoutData(x2.calls[i].ret)

\* C25: page flavor: the result of a completed invocation is { props }
\* with no data in it, and two completed invocations that differ only in
\* the data their layers contributed have equal results.
C25_DataNeverInResult ==
    /\ \A e \in DOMAIN execs :
          LET x == execs[e]
          IN (flavor = "page" /\ x.pc = "done" /\ TerminalCalls(x) = {}) =>
                /\ x.result.has = {"props"}
                /\ x.result.data = EmptyObj
                /\ x.result.props = objects[x.propsRef]
    /\ \A e1, e2 \in DOMAIN execs :
          (/\ flavor = "page"
           /\ execs[e1].pc = "done"
           /\ execs[e2].pc = "done"
           /\ DifferInDataOnly(execs[e1], execs[e2]))
              => execs[e1].result = execs[e2].result

\* Two completed invocations whose layers contributed the same props and
\* different data: their data accumulators differ, their results do not.
C25_Witness ==
    \E e1, e2 \in DOMAIN execs :
        /\ flavor = "page"
        /\ execs[e1].pc = "done"
        /\ execs[e2].pc = "done"
        /\ DifferInDataOnly(execs[e1], execs[e2])
        /\ objects[execs[e1].dataRef] # objects[execs[e2].dataRef]
        /\ DOMAIN objects[execs[e1].dataRef] # DOMAIN objects[execs[e2].dataRef]
        /\ execs[e1].result = execs[e2].result
        /\ execs[e1].result.props # EmptyObj
        /\ Len(execs[e1].calls) >= 2

\* C26: page flavor: a layer result without props leaves props as it was,
\* one without data leaves data as it was, and in either accumulator a key
\* the result does not supply keeps the value it had.
C26_AccumulatorsIndependent ==
    \A e \in DOMAIN execs :
        LET x == execs[e]
        IN \A i \in DOMAIN x.calls :
            (flavor = "page" /\ Merged(x, i)) =>
                \A acc \in {"data", "props"} :
                    /\ acc \notin x.calls[i].ret.has =>
                          AfterCall(x, i, acc) = Handed(x.calls[i], acc)
                    /\ \A k \in DOMAIN Handed(x.calls[i], acc) :
                          k \notin DOMAIN Contribution(x.calls[i].ret, acc) =>
                             /\ k \in DOMAIN AfterCall(x, i, acc)
                             /\ AfterCall(x, i, acc)[k] = Handed(x.calls[i], acc)[k]

\* A layer supplying data only, after layers that had set props and
\* another key of data: props is as before, the other key of data too.
C26_Witness ==
    \E e \in DOMAIN execs :
        LET x == execs[e]
        IN \E i \in DOMAIN x.calls :
            /\ flavor = "page"
            /\ Merged(x, i)
            /\ x.calls[i].ret.has = {"data"}
            /\ x.calls[i].props # EmptyObj
            /\ AfterCall(x, i, "props") = x.calls[i].props
            /\ \E k \in DOMAIN x.calls[i].data : k \notin DOMAIN x.calls[i].ret.data
            /\ AfterCall(x, i, "data") # x.calls[i].data

\* The positions of the layer calls x made.
LayerCalls(x) == {i \in DOMAIN x.calls : IsLayerCall(x.calls[i])}

\* C27: an invocation over a chain of n layers makes at most n layer calls
\* and one call of the final handler, never going back to an earlier
\* layer, and when none of its calls threw it does not end in a failure:
\* it ends completed or terminated.
C27_EndsWithinBound ==
    \A e \in DOMAIN execs :
        LET x == execs[e]
        IN /\ Cardinality(LayerCalls(x)) <= Len(ChainOf(x.h))
           /\ Cardinality(FnCalls(x)) <= 1
           /\ \A i, j \in DOMAIN x.calls : i < j => x.calls[i].idx < x.calls[j].idx
           /\ (\A i \in DOMAIN x.calls : x.calls[i].ret.throws = "") => x.pc # "failed"

\* The returned value is undefined or an object, and has a truthy stop.
HasTruthyStop(ret) == "stop" \in ret.has /\ Truthy(ret.stop)

\* C28: api flavor: a layer result (undefined or an object) ends the
\* chain if and only if it has a truthy stop.  Without one the next layer
\* or the final handler is called, with the result's data, if any, merged.
\* With one the invocation ends with no value and the result's data is
\* merged nowhere.
C28_ApiStopIffTruthy ==
    \A e \in DOMAIN execs :
        LET x == execs[e]
        IN \A i \in DOMAIN x.calls :
            LET c == x.calls[i]
                given == Contribution(c.ret, "data")
            IN (/\ flavor = "api" /\ IsLayerCall(c)
                /\ c.ret.throws = "" /\ ~c.ret.nonObject /\ ~c.ret.never) =>
                  /\ HasTruthyStop(c.ret) =>
                        /\ i = Len(x.calls)
                        /\ x.pc \in {"layer", "done"}
                        /\ x.result = RetUndefined
                        /\ objects[x.dataRef] = c.data
                  /\ ~HasTruthyStop(c.ret) =>
                        /\ i = Len(x.calls) => x.pc = "layer"
                        /\ i < Len(x.calls) =>
                              /\ x.calls[i + 1].idx = i + 1
                              /\ DOMAIN x.calls[i + 1].data = DOMAIN c.data \cup DOMAIN given
                              /\ \A k \in DOMAIN x.calls[i + 1].data :
                                    x.calls[i + 1].data[k]
                                        = IF k \in DOMAIN given THEN given[k] ELSE c.data[k]

\* { stop: false, data } went on with its data merged; { stop: true,
\* data } after it ended the invocation, a layer and the final handler
\* uncalled and its data merged nowhere.
C28_Witness ==
    \E e \in DOMAIN execs :
        LET x == execs[e]
        IN /\ flavor = "api"
           /\ x.pc = "done"
           /\ Len(ChainOf(x.h)) = 3
           /\ Len(x.calls) = 2
           /\ x.calls[1].ret.has = {"stop", "data"}
           /\ ~Truthy(x.calls[1].ret.stop)
           /\ x.calls[2].data = x.calls[1].ret.data
           /\ x.calls[2].ret.has = {"stop", "data"}
           /\ Truthy(x.calls[2].ret.stop)
           /\ objects[x.dataRef] = x.calls[2].data
           /\ DOMAIN x.calls[2].ret.data \cap DOMAIN objects[x.dataRef] = {}

\* The returned object has the key notFound or the key redirect.
HasTerminalKey(ret) == "notFound" \in ret.has \/ "redirect" \in ret.has

\* C29: page flavor: an object a layer or the final handler returned ends
\* the invocation if and only if it has the key notFound or the key
\* redirect, whatever the value of the key; it is then the result as it
\* is, nothing of it being merged.
C29_PageTerminalIffKey ==
    \A e \in DOMAIN execs :
        LET x == execs[e]
        IN \A i \in DOMAIN x.calls :
            LET c == x.calls[i]
            IN (/\ flavor = "page"
                /\ c.ret.throws = "" /\ ~c.ret.nonObject /\ ~c.ret.isUndef) =>
                  /\ HasTerminalKey(c.ret) =>
                        /\ i = Len(x.calls)
                        /\ x.pc \in {"layer", "fn", "done"}
                        /\ x.pc = "done" =>
                              /\ x.result = c.ret
                              /\ objects[x.dataRef] = c.data
                              /\ objects[x.propsRef] = c.props
                  /\ (~HasTerminalKey(c.ret) /\ IsLayerCall(c)) =>
                        /\ i = Len(x.calls) =>
                              \/ x.pc = "layer"
                              \/ /\ x.pc = "done" /\ x.h.fn = "none"
                                 /\ x.result = RetProps(objects[x.propsRef])
                        /\ i < Len(x.calls) => x.calls[i + 1].idx = i + 1
                  /\ (~HasTerminalKey(c.ret) /\ IsFnCall(c)) =>
                        /\ x.pc \in {"fn", "props", "done"}
                        /\ x.pc = "done" => x.result = RetProps(objects[x.propsRef])

\* { notFound: false, props } returned by the second of three layers is
\* the result as it is; its props were not merged, and neither the third
\* layer nor the final handler was called.
C29_Witness ==
    \E e \in DOMAIN execs :
        LET x == execs[e]
        IN /\ flavor = "page"
           /\ x.pc = "done"
           /\ Len(ChainOf(x.h)) = 3
           /\ x.h.fn # "none"
           /\ Len(x.calls) = 2
           /\ x.calls[2].ret.has = {"notFound", "props"}
           /\ x.calls[2].ret.notFound = Bool("false")
           /\ x.calls[2].props # EmptyObj
           /\ x.result = x.calls[2].ret
           /\ objects[x.propsRef] = x.calls[2].props

====
